---------------------------- MODULE Spec2Model ----------------------------
(***************************************************************************)
(* A model of mezzanine/core/forms.py: the credential forms (UserForm,     *)
(* SignupForm, LoginForm) working against the user registry, and the       *)
(* in-line editing form built by get_edit_form.                            *)
(*                                                                         *)
(* Text is modelled as a sequence of atoms (<<"ann", "@", "example.com">>  *)
(* is the string "ann@example.com", <<>> is ""), so that splitting,        *)
(* concatenating and validating are computed on the text.                  *)
(*                                                                         *)
(* The framework primitives the module calls (authenticate, login,         *)
(* User.objects.get / create_user, validate_email, the ModelForm class     *)
(* construction) are modelled at the place of the call, by what Django     *)
(* does there.                                                             *)
(***************************************************************************)
EXTENDS Integers, Sequences, FiniteSets, TLC

VARIABLES
    registry,      \* User.objects: the rows of the user table, in id order
    form,          \* per request: the credential form being handled
    cookies,       \* per request: request.COOKIES.values(), in iteration order
    session,       \* per request: the user its session is logged in as
    verification,  \* settings.ACCOUNTS_VERIFICATION_REQUIRED
    editing,       \* per request: the get_edit_form call it is to make
    edit,          \* per request: what get_edit_form produced
    issued,        \* the identifiers uuid4() has handed out
    html5          \* settings.FORMS_USE_HTML5

vars == <<registry, form, cookies, session, verification, editing, edit, issued, html5>>

accountVars == <<registry, form, cookies, session, verification>>
editVars == <<editing, edit, issued, html5>>

(***************************************************************************)
(* Bounds                                                                  *)
(***************************************************************************)
MaxInitUsers == 1      \* users in the registry before the first request
MaxUsers == 3          \* rows the user table may grow to
MaxCookies == 2        \* cookies a request carries
MaxFieldNames == 3     \* atoms in a field_names string
MaxUuid == 3           \* uuid4() calls in one run

Requests == {"r1", "r2"}

(***************************************************************************)
(* Text values                                                             *)
(***************************************************************************)
EmailA == <<"ann", "@", "example.com">>
EmailB == <<"bob", "@", "example.com">>
NoAtSign == <<"ann", "example.com">>
NoDomain == <<"bob", "@">>
Token == <<"k3y">>
Empty == <<>>

LocalParts == {"ann", "bob"}
Domains == {"example.com"}

CookieValues == {EmailA, EmailB, NoAtSign, Token}
EmailInputs == {EmailA, EmailB, NoDomain}
PasswordInputs == {<<"pw1">>, <<"pw2">>, Empty}

\* django.core.validators.validate_email: local part, "@", domain.
validate_email(value) ==
    /\ Len(value) = 3
    /\ value[1] \in LocalParts
    /\ value[2] = "@"
    /\ value[3] \in Domains

(***************************************************************************)
(* Python values                                                           *)
(***************************************************************************)
Unset == [tag |-> "unset", id |-> 0]      \* the attribute was never assigned
None == [tag |-> "None", id |-> 0]
UserRef(i) == [tag |-> "user", id |-> i]   \* the User row with primary key i

EmptyDict == [k \in {} |-> Empty]
Has(dict, key) == key \in DOMAIN dict
Get(dict, key, default) == IF key \in DOMAIN dict THEN dict[key] ELSE default
Put(dict, key, value) ==
    [k \in DOMAIN dict \cup {key} |-> IF k = key THEN value ELSE dict[k]]
Del(dict, key) == [k \in DOMAIN dict \ {key} |-> dict[k]]

RECURSIVE SeqsUpTo(_, _)
SeqsUpTo(S, n) ==
    IF n = 0 THEN {<<>>}
    ELSE SeqsUpTo(S, n - 1) \cup
         {Append(s, x) : s \in {t \in SeqsUpTo(S, n - 1) : Len(t) = n - 1}, x \in S}

(***************************************************************************)
(* The user registry (django.contrib.auth)                                 *)
(***************************************************************************)
make_password(raw) == <<"hash">> \o raw
check_password(raw, encoded) == encoded = make_password(raw)

UsersNamed(rows, username) ==
    {i \in 1..Len(rows) : rows[i].username = username}

\* authenticate(username=..., password=...): the user or None.
authenticate(rows, username, password) ==
    LET found == {i \in UsersNamed(rows, username) :
                     check_password(password, rows[i].password)}
    IN  IF found = {} THEN None ELSE UserRef(CHOOSE i \in found : TRUE)

NewUser(username, email, password) ==
    [username |-> username, email |-> email,
     password |-> make_password(password), is_active |-> TRUE]

\* create_user on a table whose username column is not unique.
CreateUserNoUniqueCheck(rows, username, email, password) ==
    [raised |-> "", rows |-> Append(rows, NewUser(username, email, password))]

\* User.objects.create_user(username, email, password): the table with the
\* new row; IntegrityError is raised, and no row added, when the username
\* is taken (User.username is a unique column).
create_user(rows, username, email, password) ==
    IF UsersNamed(rows, username) # {}
    THEN [raised |-> "IntegrityError", rows |-> rows]
    ELSE [raised |-> "", rows |-> Append(rows, NewUser(username, email, password))]

(***************************************************************************)
(* UserForm                                                                *)
(***************************************************************************)
NoForm == [kind |-> "none"]

\* The loop of UserForm.__init__ without its break: the last valid email.
RECURSIVE InitialLastValid(_)
InitialLastValid(values) ==
    IF values = <<>> THEN EmptyDict
    ELSE IF InitialLastValid(Tail(values)) # EmptyDict
         THEN InitialLastValid(Tail(values))
         ELSE IF validate_email(Head(values))
              THEN Put(EmptyDict, "email", Head(values))
              ELSE EmptyDict

\* UserForm.__init__: the loop over request.COOKIES.values(), which stops
\* at the first value that validate_email accepts.
RECURSIVE UserFormInitial(_)
UserFormInitial(values) ==
    IF values = <<>> THEN EmptyDict
    ELSE IF validate_email(Head(values))
         THEN Put(EmptyDict, "email", Head(values))
         ELSE UserFormInitial(Tail(values))

\* The fields' own validation (forms.EmailField, forms.CharField): the
\* values that pass are in cleaned_data, the others leave an error.
CleanFields(data) ==
    [k \in {f \in {"email", "password"} :
               IF f = "email" THEN validate_email(data.email)
               ELSE data.password # Empty} |-> data[k]]

FieldErrors(data) ==
    {<<f, "invalid">> : f \in {"email", "password"} \ DOMAIN CleanFields(data)}

\* SignupForm(request, data) or LoginForm(request, data), for a new request
\* r, whose session starts anonymous.
UserFormInit(r, kind, values, data) ==
    /\ cookies' = [cookies EXCEPT ![r] = values]
    /\ form' = [form EXCEPT ![r] =
                   [kind |-> kind, state |-> "bound",
                    initial |-> UserFormInitial(values),
                    data |-> data, cleaned_data |-> EmptyDict, errors |-> {},
                    _user |-> Unset, saved |-> Unset]]
    /\ session' = [session EXCEPT ![r] = None]
    /\ UNCHANGED <<registry, verification>>
    /\ UNCHANGED editVars

(***************************************************************************)
(* SignupForm                                                              *)
(***************************************************************************)
AlreadyRegistered == <<"email", "This email is already registered">>
InvalidLogin == <<"__all__", "Invalid email/password">>
InactiveAccount == <<"__all__", "Your account is inactive">>

\* clean_email that takes the email as registered only when the password
\* submitted is that user's.
CleanEmailChecksPasswordToo(rows, cleaned_data) ==
    IF authenticate(rows, cleaned_data.email,
                    Get(cleaned_data, "password", Empty)) = None
    THEN [raised |-> {}, value |-> cleaned_data.email]
    ELSE [raised |-> {AlreadyRegistered}, value |-> Empty]

\* SignupForm.clean_email: the email, or the ValidationError raised.
clean_email(rows, cleaned_data) ==
    IF UsersNamed(rows, cleaned_data.email) = {}
    THEN [raised |-> {}, value |-> cleaned_data.email]
    ELSE [raised |-> {AlreadyRegistered}, value |-> Empty]

\* save without its else branch: authenticate is never called.
SaveNeverAuthenticates(rows, required, f) ==
    LET email == f.cleaned_data.email
        made == create_user(rows, email, email, f.cleaned_data.password)
        id == Len(made.rows)
    IN  IF made.raised # ""
        THEN [rows |-> rows, _user |-> f._user,
              saved |-> [tag |-> made.raised, id |-> 0]]
        ELSE [rows |-> IF required
                       THEN [made.rows EXCEPT ![id].is_active = FALSE]
                       ELSE made.rows,
              _user |-> f._user, saved |-> UserRef(id)]

\* save that calls authenticate also when verification is required.
SaveAuthenticatesAlways(rows, required, f) ==
    LET email == f.cleaned_data.email
        made == create_user(rows, email, email, f.cleaned_data.password)
        id == Len(made.rows)
    IN  IF made.raised # ""
        THEN [rows |-> rows, _user |-> f._user,
              saved |-> [tag |-> made.raised, id |-> 0]]
        ELSE [rows |-> IF required
                       THEN [made.rows EXCEPT ![id].is_active = FALSE]
                       ELSE made.rows,
              _user |-> authenticate(made.rows, email, f.cleaned_data.password),
              saved |-> UserRef(id)]

\* SignupForm.save: the table, the form's _user and the value returned (or
\* the exception raised) after the call.
SignupFormSave(rows, required, f) ==
    LET email == f.cleaned_data["email"]
        made == create_user(rows, email, email, f.cleaned_data["password"])
        id == Len(made.rows)
    IN  IF made.raised # ""
        THEN [rows |-> rows, _user |-> f._user,
              saved |-> [tag |-> made.raised, id |-> 0]]
        ELSE IF required
        THEN [rows |-> [made.rows EXCEPT ![id].is_active = FALSE],
              _user |-> f._user, saved |-> UserRef(id)]
        ELSE [rows |-> made.rows,
              _user |-> authenticate(made.rows,
                                     Get(f.cleaned_data, "email", Empty),
                                     Get(f.cleaned_data, "password", Empty)),
              saved |-> UserRef(id)]

(***************************************************************************)
(* LoginForm                                                               *)
(***************************************************************************)
\* clean without its elif branch: is_active is not looked at.
LoginCleanIgnoresInactive(rows, f, cleaned_data) ==
    IF Has(cleaned_data, "email") /\ Has(cleaned_data, "password")
    THEN LET u == authenticate(rows, cleaned_data.email, cleaned_data.password)
         IN  [_user |-> u,
              raised |-> IF u = None THEN {InvalidLogin} ELSE {}]
    ELSE [_user |-> f._user, raised |-> {}]

\* LoginForm.clean: the form's _user and the ValidationError raised.
LoginFormClean(rows, f, cleaned_data) ==
    IF Has(cleaned_data, "email") /\ Has(cleaned_data, "password")
    THEN LET u == authenticate(rows, Get(cleaned_data, "email", Empty),
                               Get(cleaned_data, "password", Empty))
         IN  [_user |-> u,
              raised |-> IF u = None THEN {InvalidLogin}
                         ELSE IF ~rows[u.id].is_active THEN {InactiveAccount}
                         ELSE {}]
    ELSE [_user |-> f._user, raised |-> {}]

(***************************************************************************)
(* The calls a view makes on a credential form                             *)
(***************************************************************************)
\* form.is_valid(): the fields' validation, then clean_email (SignupForm)
\* and clean (LoginForm).
IsValid(r) ==
    /\ form[r].kind # "none"
    /\ form[r].state = "bound"
    /\ LET f == form[r]
           fields == CleanFields(f.data)
           checked == IF f.kind = "SignupForm" /\ Has(fields, "email")
                      THEN clean_email(registry, fields)
                      ELSE [raised |-> {}, value |-> Get(fields, "email", Empty)]
           cleaned == IF checked.raised # {} THEN Del(fields, "email") ELSE fields
           whole == IF f.kind = "LoginForm"
                    THEN LoginFormClean(registry, f, cleaned)
                    ELSE [_user |-> f._user, raised |-> {}]
       IN  form' = [form EXCEPT ![r] =
                       [f EXCEPT !.state = "cleaned",
                                 !.cleaned_data = cleaned,
                                 !.errors = FieldErrors(f.data) \cup checked.raised
                                               \cup whole.raised,
                                 !._user = whole._user]]
    /\ UNCHANGED <<registry, cookies, session, verification>>
    /\ UNCHANGED editVars

\* form.save(), which a view calls on a SignupForm that is valid.
Save(r) ==
    /\ form[r].kind = "SignupForm"
    /\ form[r].state = "cleaned"
    /\ form[r].errors = {}
    /\ Len(registry) < MaxUsers
    /\ LET done == SignupFormSave(registry, verification, form[r])
       IN  /\ registry' = done.rows
           /\ form' = [form EXCEPT ![r] =
                          [@ EXCEPT !.state = "saved", !._user = done._user,
                                    !.saved = done.saved]]
    /\ UNCHANGED <<cookies, session, verification>>
    /\ UNCHANGED editVars

\* UserForm.login(request): django.contrib.auth.login with the form's
\* _user. It raises, and logs nobody in, when _user is not a user.
Login(r) ==
    /\ form[r].kind # "none"
    /\ session' = [session EXCEPT ![r] =
                      IF form[r]._user.tag = "user" THEN form[r]._user ELSE @]
    /\ UNCHANGED <<registry, form, cookies, verification>>
    /\ UNCHANGED editVars

(***************************************************************************)
(* get_edit_form                                                           *)
(***************************************************************************)
\* str.split(","): the pieces between the commas; "" splits into [""].
RECURSIVE Split(_)
Split(text) ==
    IF text = <<>> THEN << <<>> >>
    ELSE LET rest == Split(Tail(text))
         IN  IF Head(text) = "," THEN << <<>> >> \o rest
             ELSE << <<Head(text)>> \o rest[1] >> \o Tail(rest)

\* str.lower() of the class names the module lower-cases.
Lower(name) ==
    CASE name = "CharField" -> "charfield"
      [] name = "DateField" -> "datefield"
      [] name = "DateTimeField" -> "datetimefield"
      [] name = "EmailField" -> "emailfield"
      [] name = "Event" -> "event"
      [] name = "Booking" -> "booking"
      [] OTHER -> name

Widget(kind, attrs) == [kind |-> kind, attrs |-> attrs]
Field(class, widget, required) ==
    [class |-> class, widget |-> widget, required |-> required]

\* What a model field without a form field gives (AutoField.formfield()
\* returns None), and what dict.get gives for a name the model lacks.
NoField == Field("None", Widget("None", EmptyDict), FALSE)

\* TinyMceWidget.__init__
TinyMceWidget == Widget("TinyMceWidget", Put(EmptyDict, "class", <<"mceEditor">>))

\* The models of the objects edited in place: per model field, the form
\* field its formfield() gives.
ModelFields(model) ==
    IF model = "Event"
    THEN [f \in {<<"id">>, <<"title">>, <<"content">>, <<"start_date">>,
                 <<"publish_date">>, <<"email">>} |->
            CASE f = <<"id">> -> NoField
              [] f = <<"title">> ->
                    Field("CharField", Widget("TextInput", EmptyDict), TRUE)
              [] f = <<"content">> -> Field("CharField", TinyMceWidget, FALSE)
              [] f = <<"start_date">> ->
                    Field("DateField", Widget("DateInput", EmptyDict), TRUE)
              [] f = <<"publish_date">> ->
                    Field("DateTimeField", Widget("DateTimeInput", EmptyDict), FALSE)
              [] f = <<"email">> ->
                    Field("EmailField", Widget("TextInput", EmptyDict), FALSE)]
    ELSE [f \in {<<"id">>, <<"title">>, <<"start_date">>, <<"email">>} |->
            CASE f = <<"id">> -> NoField
              [] f = <<"title">> ->
                    Field("CharField", Widget("TextInput", EmptyDict), TRUE)
              [] f = <<"start_date">> ->
                    Field("DateField",
                          Widget("DateInput",
                                 Put(EmptyDict, "class", <<"datepicker">>)), TRUE)
              [] f = <<"email">> ->
                    Field("EmailField",
                          Widget("TextInput",
                                 Put(EmptyDict, "class", <<"contact">>)), FALSE)]

AppLabel(model) == IF model = "Event" THEN <<"events">> ELSE <<"bookings">>

Objects == {[model |-> "Event", id |-> 1], [model |-> "Booking", id |-> 2]}

FieldNameAtoms ==
    {",", "title", "content", "start_date", "publish_date", "email", "id", "app"}

NoCall == [obj |-> [model |-> "none", id |-> 0], field_names |-> <<>>]

\* EditForm's own fields: app, model, id and fields, each a CharField with
\* a HiddenInput.
DeclaredFields ==
    [f \in {<<"app">>, <<"model">>, <<"id">>, <<"fields">>} |->
        Field("CharField", Widget("HiddenInput", EmptyDict), TRUE)]

\* widget_overrides: the field type of a form field class.
widget_overrides ==
    [c \in {"DateField", "DateTimeField", "EmailField"} |->
        CASE c = "DateField" -> "DATE"
          [] c = "DateTimeField" -> "DATE_TIME"
          [] c = "EmailField" -> "EMAIL"]

\* mezzanine.forms.fields.WIDGETS: the widget class of a field type.
WIDGETS ==
    [t \in {"DATE", "DATE_TIME", "EMAIL"} |->
        CASE t = "DATE" -> "SelectDateWidget"
          [] t = "DATE_TIME" -> "SplitSelectDateTimeWidget"
          [] t = "EMAIL" -> "EmailInput"]

\* fields.WIDGETS[field_type](): a new widget, built with no arguments.
NewWidget(field_type) == Widget(WIDGETS[field_type], EmptyDict)

\* class EditForm(forms.ModelForm) with Meta.fields = names: the ModelForm
\* metaclass takes the named model fields that have a form field, raises
\* FieldError for a name that gave none unless the form declares a field
\* of that name, and lets the declared fields override.
ModelFormNew(model, names) ==
    LET opts == ModelFields(model)
        named == {names[i] : i \in 1..Len(names)}
        ignored == {f \in named \cap DOMAIN opts : opts[f] = NoField}
        field_dict == [f \in named \ ignored |->
                          IF f \in DOMAIN opts THEN opts[f] ELSE NoField]
        none_model_fields == {f \in DOMAIN field_dict : field_dict[f] = NoField}
        missing_fields == none_model_fields \ DOMAIN DeclaredFields
    IN  IF missing_fields # {}
        THEN [raised |-> "FieldError", base_fields |-> EmptyDict]
        ELSE [raised |-> "",
              base_fields |-> [f \in DOMAIN field_dict \cup DOMAIN DeclaredFields |->
                                  IF f \in DOMAIN DeclaredFields
                                  THEN DeclaredFields[f] ELSE field_dict[f]]]

UuidPool == <<"uuid-a", "uuid-b", "uuid-c", "uuid-d", "uuid-e">>

\* An identifier made once and shared by every form.
SharedUuid(given) == {UuidPool[1]}

\* uuid4(): an identifier no earlier call returned.
uuid4(given) == {UuidPool[i] : i \in 1..MaxUuid} \ given

\* The loop body with css_class assigned instead of appended to.
StyleFieldOverwritesClass(f, field, uuid, useHtml5) ==
    LET widget == IF field.class \in DOMAIN widget_overrides
                  THEN NewWidget(widget_overrides[field.class])
                  ELSE field.widget
        css_class == <<" ", Lower(field.class)>>
        styled == Put(Put(widget.attrs, "class", css_class), "id", f \o <<"-", uuid>>)
    IN  [field EXCEPT !.widget =
            Widget(widget.kind,
                   IF useHtml5 /\ field.required
                   THEN Put(styled, "required", Empty) ELSE styled)]

\* The body of the loop of EditForm.__init__ for the field named f.
StyleField(f, field, uuid, useHtml5) ==
    LET widget == IF field.class \in DOMAIN widget_overrides
                  THEN NewWidget(widget_overrides[field.class])
                  ELSE field.widget
        css_class == Get(widget.attrs, "class", Empty) \o <<" ", Lower(field.class)>>
        styled == Put(Put(widget.attrs, "class", css_class), "id", f \o <<"-", uuid>>)
    IN  [field EXCEPT !.widget =
            Widget(widget.kind,
                   IF useHtml5 /\ field.required
                   THEN Put(styled, "required", Empty) ELSE styled)]

\* The initial dict with the first of the names in place of field_names.
InitialFirstNameOnly(obj, field_names) ==
    [app |-> AppLabel(obj.model), id |-> obj.id,
     fields |-> Split(field_names)[1], model |-> <<Lower(obj.model)>>]

\* The initial dict get_edit_form passes to the form.
EditFormInitial(obj, field_names) ==
    [app |-> AppLabel(obj.model), id |-> obj.id,
     fields |-> field_names, model |-> <<Lower(obj.model)>>]

\* get_edit_form(obj, field_names), as request r calls it.
get_edit_form(r) ==
    LET obj == editing[r].obj
        field_names == editing[r].field_names
        made == ModelFormNew(obj.model, Split(field_names))
    IN  /\ editing[r] # NoCall
        /\ edit[r].kind = "none"
        /\ IF made.raised # ""
           THEN /\ edit' = [edit EXCEPT ![r] = [kind |-> made.raised]]
                /\ issued' = issued
           ELSE \E uuid \in uuid4(issued) :
                   /\ edit' = [edit EXCEPT ![r] =
                                 [kind |-> "EditForm", instance |-> obj,
                                  initial |-> EditFormInitial(obj, field_names),
                                  uuid |-> uuid,
                                  fields |-> [f \in DOMAIN made.base_fields |->
                                                 StyleField(f, made.base_fields[f],
                                                            uuid, html5)]]]
                   /\ issued' = issued \cup {uuid}
        /\ UNCHANGED <<editing, html5>>
        /\ UNCHANGED accountVars

(***************************************************************************)
(* Specifications                                                          *)
(***************************************************************************)
InitUsers ==
    {[username |-> e, email |-> e, password |-> make_password(p), is_active |-> a] :
        e \in {EmailA, EmailB}, p \in {<<"pw1">>}, a \in BOOLEAN}

UniqueUsernames(rows) ==
    \A i, j \in 1..Len(rows) : rows[i].username = rows[j].username => i = j

AccountInit ==
    /\ registry \in {rows \in SeqsUpTo(InitUsers, MaxInitUsers) : UniqueUsernames(rows)}
    /\ form = [r \in Requests |-> NoForm]
    /\ cookies = [r \in Requests |-> <<>>]
    /\ session = [r \in Requests |-> None]
    /\ verification \in BOOLEAN

EditInitIdle ==
    /\ editing = [r \in Requests |-> NoCall]
    /\ edit = [r \in Requests |-> [kind |-> "none"]]
    /\ issued = {}
    /\ html5 = FALSE

Init == AccountInit /\ EditInitIdle

Next ==
    \/ \E r \in Requests, kind \in {"SignupForm", "LoginForm"},
          e \in EmailInputs, p \in PasswordInputs :
          UserFormInit(r, kind, <<>>, [email |-> e, password |-> p])
    \/ \E r \in Requests : IsValid(r)
    \/ \E r \in Requests : Save(r)
    \/ \E r \in Requests : Login(r)

Spec == Init /\ [][Next]_vars

AccountInitIdle ==
    /\ registry = <<>>
    /\ form = [r \in Requests |-> NoForm]
    /\ cookies = [r \in Requests |-> <<>>]
    /\ session = [r \in Requests |-> None]
    /\ verification = FALSE

Calls(names) == {[obj |-> o, field_names |-> n] : o \in Objects, n \in names}

\* One request, with any field_names string.
InitEdit ==
    /\ editing \in {[r \in Requests |-> IF r = "r1" THEN c ELSE NoCall] :
                       c \in Calls(SeqsUpTo(FieldNameAtoms, MaxFieldNames))}
    /\ edit = [r \in Requests |-> [kind |-> "none"]]
    /\ issued = {}
    /\ html5 \in BOOLEAN
    /\ AccountInitIdle

NextEdit == \E r \in Requests : get_edit_form(r)

SpecEdit == InitEdit /\ [][NextEdit]_vars

\* Two requests, whose forms are alive at the same time.
PairFieldNames ==
    {<<"title">>, <<"start_date">>, <<"title", ",", "start_date">>, <<"id">>, <<>>}

InitEditPair ==
    /\ editing \in [Requests -> Calls(PairFieldNames)]
    /\ edit = [r \in Requests |-> [kind |-> "none"]]
    /\ issued = {}
    /\ html5 \in BOOLEAN
    /\ AccountInitIdle

SpecEditPair == InitEditPair /\ [][NextEdit]_vars

\* Requests that carry cookies: only the construction of the form reads them.
CookieJars == SeqsUpTo(CookieValues, MaxCookies)

InitCookies == AccountInitIdle /\ EditInitIdle

NextCookies ==
    \E r \in Requests, kind \in {"SignupForm", "LoginForm"}, values \in CookieJars :
        UserFormInit(r, kind, values, [email |-> EmailA, password |-> <<"pw1">>])

SpecCookies == InitCookies /\ [][NextCookies]_vars

(***************************************************************************)
(* Properties                                                              *)
(***************************************************************************)
Matching(rows, data) ==
    {i \in 1..Len(rows) : /\ rows[i].username = data.email
                          /\ rows[i].password = <<"hash">> \o data.password}

Cleans(r, kind) ==
    /\ form[r].kind = kind
    /\ form[r].state = "bound"
    /\ form'[r].state = "cleaned"

Saves(r) ==
    /\ form[r].kind = "SignupForm"
    /\ form[r].state = "cleaned"
    /\ form'[r].state = "saved"

\* C1: LoginForm.clean, run with both fields valid, fails with the
\* invalid-email/password error when no user has the email as username and
\* the password, fails with the account-is-inactive error when that user is
\* not active, and passes only when that user is active; after a passing
\* validation _user is an active user.
C1_LoginCleanOutcomes ==
    [][\A r \in Requests :
          (Cleans(r, "LoginForm") /\ DOMAIN form'[r].cleaned_data = {"email", "password"})
          => LET match == Matching(registry, form[r].data)
                 after == form'[r]
             IN  /\ after.errors \in {{InvalidLogin}, {InactiveAccount}, {}}
                 /\ after.errors = {InvalidLogin} <=> match = {}
                 /\ after.errors = {InvalidLogin} <=> after._user = None
                 /\ after.errors = {InactiveAccount}
                        <=> \E i \in match : ~registry[i].is_active
                 /\ after.errors = {}
                        => /\ after._user.tag = "user"
                           /\ after._user.id \in match
                           /\ registry'[after._user.id].is_active]_vars

C1_Witness ==
    \E r, q \in Requests :
        /\ form[r].kind = "LoginForm" /\ form[r].errors = {InactiveAccount}
        /\ form[q].kind = "LoginForm" /\ form[q].state = "cleaned"
        /\ form[q].errors = {} /\ form[q]._user.tag = "user"

\* C2: SignupForm.clean_email raises the email-already-registered error
\* exactly when a user of the registry has the email as username, whatever
\* the password; otherwise the email stays in cleaned_data unchanged; the
\* registry is unchanged by the validation.
C2_CleanEmailRejectsRegistered ==
    [][\A r \in Requests :
          (Cleans(r, "SignupForm") /\ validate_email(form[r].data.email))
          => LET email == form[r].data.email
                 taken == \E i \in 1..Len(registry) : registry[i].username = email
             IN  /\ registry' = registry
                 /\ taken <=> AlreadyRegistered \in form'[r].errors
                 /\ taken => ~Has(form'[r].cleaned_data, "email")
                 /\ ~taken => /\ Has(form'[r].cleaned_data, "email")
                              /\ form'[r].cleaned_data.email = email]_vars

C2_Witness ==
    \E r \in Requests, i \in 1..Len(registry) :
        /\ form[r].kind = "SignupForm"
        /\ AlreadyRegistered \in form[r].errors
        /\ registry[i].username = form[r].data.email
        /\ registry[i].password # <<"hash">> \o form[r].data.password

C4_VerificationRequiredSave ==
    [][\A r \in Requests :
          (Saves(r) /\ verification)
          => /\ form'[r]._user = Unset
             /\ session' = session
             /\ form'[r].saved.tag \in {"user", "IntegrityError"}
             /\ form'[r].saved.tag = "user"
                => /\ form'[r].saved.id = Len(registry')
                   /\ registry' = Append(registry,
                         [username |-> form[r].data.email,
                          email |-> form[r].data.email,
                          password |-> <<"hash">> \o form[r].data.password,
                          is_active |-> FALSE])]_vars

C4_Witness ==
    \E r \in Requests :
        /\ verification
        /\ form[r].kind = "SignupForm" /\ form[r].state = "saved"
        /\ form[r].saved.tag = "user"
        /\ ~registry[form[r].saved.id].is_active
        /\ form[r]._user = Unset
        /\ session[r] = None

Hidden == {<<"app">>, <<"model">>, <<"id">>, <<"fields">>}

NamesOf(call) ==
    {Split(call.field_names)[i] : i \in 1..Len(Split(call.field_names))}

\* The classes of a class attribute: its words.
ClassList(text) == {text[i] : i \in 1..Len(text)} \ {" "}

ClassesOf(field) ==
    IF "class" \in DOMAIN field.widget.attrs
    THEN ClassList(field.widget.attrs["class"]) ELSE {}

TypeName(class) ==
    IF class = "CharField" THEN "charfield"
    ELSE IF class = "DateField" THEN "datefield"
    ELSE IF class = "DateTimeField" THEN "datetimefield"
    ELSE "emailfield"

\* The field a form field was before EditForm.__init__ ran.
BaseField(call, name) ==
    IF name \in Hidden THEN DeclaredFields[name]
    ELSE ModelFields(call.obj.model)[name]

ElementIds(f) == {f.fields[n].widget.attrs["id"] : n \in DOMAIN f.fields}

C7_ElementIdsNeverCollide ==
    /\ \A r, q \in Requests :
          (r # q /\ edit[r].kind = "EditForm" /\ edit[q].kind = "EditForm")
          => /\ edit[r].uuid # edit[q].uuid
             /\ ElementIds(edit[r]) \cap ElementIds(edit[q]) = {}
    /\ \A r \in Requests :
          edit[r].kind = "EditForm"
          => \A id \in ElementIds(edit[r]) : id[Len(id)] = edit[r].uuid

C7_Witness ==
    \E r, q \in Requests :
        /\ r # q
        /\ editing[r] = editing[q]
        /\ editing[r].field_names = <<"title">>
        /\ edit[r].kind = "EditForm" /\ edit[q].kind = "EditForm"

\* C8: every form get_edit_form returns has at least one model field, all of
\* them fields of obj's model, and a field_names string with a name that is
\* no field of the model (the empty name included) makes the call fail.
C8_FieldSetNonEmptySubset ==
    \A r \in Requests :
        (editing[r] # NoCall /\ edit[r].kind # "none")
        => LET declared == DOMAIN ModelFields(editing[r].obj.model)
           IN  /\ edit[r].kind = "EditForm"
                  => /\ DOMAIN edit[r].fields \ Hidden # {}
                     /\ DOMAIN edit[r].fields \ Hidden \subseteq declared
               /\ ~(NamesOf(editing[r]) \subseteq declared)
                  => edit[r].kind = "FieldError"

\* C10 as claimed: every class the widget of a field had before the form
\* was built is in the field's class list afterwards, and the only class
\* added is the lower-cased name of the field's type.
C10_ClassesOfFormerWidgetKept ==
    \A r \in Requests :
        edit[r].kind = "EditForm"
        => \A n \in DOMAIN edit[r].fields :
              LET before == ClassesOf(BaseField(editing[r], n))
                  after == ClassesOf(edit[r].fields[n])
              IN  /\ before \subseteq after
                  /\ after \ before \subseteq {TypeName(edit[r].fields[n].class)}
                  /\ TypeName(edit[r].fields[n].class) \in after

\* C10 as amended: the class attribute of a field that is not a date,
\* datetime or email field is what its widget had before, then " " and the
\* lower-cased name of the field's type; a date, datetime or email field
\* has the new widget, and its class list is that name alone.
C10_ClassAppendedToWidgetInUse ==
    \A r \in Requests :
        edit[r].kind = "EditForm"
        => \A n \in DOMAIN edit[r].fields :
              LET base == BaseField(editing[r], n)
                  swapped == base.class \in {"DateField", "DateTimeField", "EmailField"}
                  had == IF "class" \in DOMAIN base.widget.attrs
                         THEN base.widget.attrs["class"] ELSE <<>>
                  now == edit[r].fields[n]
              IN  /\ now.class = base.class
                  /\ ~swapped
                     => /\ now.widget.kind = base.widget.kind
                        /\ now.widget.attrs["class"] = had \o <<" ", TypeName(base.class)>>
                        /\ ClassesOf(now) = ClassesOf(base) \cup {TypeName(base.class)}
                  /\ swapped
                     => /\ now.widget.attrs["class"] = <<" ", TypeName(base.class)>>
                        /\ ClassesOf(now) = {TypeName(base.class)}

C10_Witness ==
    \E r \in Requests :
        /\ edit[r].kind = "EditForm"
        /\ editing[r].obj.model = "Booking"
        /\ <<"start_date">> \in DOMAIN edit[r].fields
        /\ "datepicker" \in ClassesOf(BaseField(editing[r], <<"start_date">>))
        /\ ClassesOf(edit[r].fields[<<"start_date">>]) = {"datefield"}

FirstValid(values) ==
    LET valid == {i \in 1..Len(values) : validate_email(values[i])}
    IN  IF valid = {} THEN 0 ELSE CHOOSE i \in valid : \A j \in valid : i <= j

\* C5: the initial email of a credential form is the first value of the
\* request's cookies, in iteration order, that is a valid email; the form
\* has no initial email when no cookie value is one.
C5_InitialEmailFromCookies ==
    \A r \in Requests :
        form[r].kind # "none"
        => LET first == FirstValid(cookies[r])
           IN  IF first = 0 THEN DOMAIN form[r].initial = {}
               ELSE /\ DOMAIN form[r].initial = {"email"}
                    /\ form[r].initial.email = cookies[r][first]

C5_Witness ==
    \E r \in Requests :
        /\ form[r].kind # "none"
        /\ Len(cookies[r]) = 2
        /\ ~validate_email(cookies[r][1])
        /\ validate_email(cookies[r][2])
        /\ form[r].initial.email = cookies[r][2]

\* C9: with ACCOUNTS_VERIFICATION_REQUIRED off, a save that returns a user
\* has added that user active, and has set the form's _user to it, without
\* touching a session; a session gets a user only in a login step, which
\* changes neither form nor registry, and the user is the form's _user.
C9_SaveAuthenticatesLoginIsExplicit ==
    [][/\ \A r \in Requests :
             (Saves(r) /\ ~verification)
             => /\ session' = session
                /\ form'[r].saved.tag \in {"user", "IntegrityError"}
                /\ form'[r].saved.tag = "user"
                   => /\ registry' = Append(registry,
                            [username |-> form[r].data.email,
                             email |-> form[r].data.email,
                             password |-> <<"hash">> \o form[r].data.password,
                             is_active |-> TRUE])
                      /\ form'[r]._user = UserRef(Len(registry'))
                      /\ form'[r].saved = form'[r]._user
       /\ \A r \in Requests :
             (session'[r] # session[r] /\ session'[r] # None)
             => /\ form' = form
                /\ registry' = registry
                /\ form[r]._user.tag = "user"
                /\ session'[r] = form[r]._user]_vars

C9_Witness ==
    \E r, q \in Requests :
        /\ ~verification
        /\ form[r].kind = "SignupForm" /\ form[r].state = "saved"
        /\ form[r]._user.tag = "user" /\ form[r]._user = form[r].saved
        /\ session[r] = None
        /\ session[q] # None /\ session[q] = form[q]._user

=============================================================================
